---- MODULE Spec2Model ----
(***************************************************************************)
(* The two execution engines of npmjs.dev:                                 *)
(*   JSExecutorEngine       engine/quickjs-executor.ts (the interpreter)   *)
(*   BrowserExecutorEngine  engine/browser-executor.ts (the iframe realm)  *)
(* driven by one caller through initialize / execute / isReady / dispose.  *)
(* Guest code is abstracted to what the engines observe of it: the import  *)
(* specifiers it names, the console calls and global writes it makes, and  *)
(* how its evaluation ends.  The helpers around them are specified on      *)
(* their own: resolveModuleUrl (ResolveSpec), parseModuleDeps (ScanSpec)   *)
(* and the code cache of utils/local-storage.ts (StorageSpec).             *)
(***************************************************************************)
EXTENDS Naturals, Sequences, FiniteSets, TLC

(***************************************************************************)
(* Bounds of the model.                                                    *)
(***************************************************************************)
\* WASM modules one engine instance may create (initialize after dispose)
MaxModules == 2
\* iframes one engine instance may create (initialize and realm rebuilds)
MaxIframes == 3
\* execute-code messages that may wait for a realm at one time
MaxQueued == 1
\* the longest specifier handed to resolveModuleUrl, in tokens
MaxSpecifierLen == 7
\* the most statements of a source handed to parseModuleDeps
MaxStatements == 3
\* the packages beyond the capacity of the code cache that may be saved
MaxNewPackages == 2
\* the calls of the cache functions one behaviour makes
MaxStorageCalls == 3
\* the milliseconds the clock may advance in one behaviour
MaxTicks == 1
\* the initialize() calls one behaviour makes when calls may overlap
MaxInitCalls == 3

(***************************************************************************)
(* Optional fields: returnValue?: string, error?: string.                  *)
(***************************************************************************)
None == << >>
Some(s) == << s >>

(***************************************************************************)
(* Guest values as the host sees them after vm.dump / inside the realm.    *)
(* An object carries its name / message / stack properties ("" when the    *)
(* property is missing or falsy) and its JSON.stringify(_, null, 2) text.  *)
(***************************************************************************)
Undefined == [t |-> "undefined"]
Null == [t |-> "null"]
Str(s) == [t |-> "string", s |-> s]
Num(s) == [t |-> "number", s |-> s]
Obj(n, m, st, j) == [t |-> "object", name |-> n, message |-> m, stack |-> st, json |-> j]

\* typeof v === 'object' (true of null as well)
TypeofObject(v) == v.t \in {"object", "null"}

\* String(v) for the primitives, JSON.stringify(v, null, 2) for objects
JSONStringify(v) == IF v.t = "null" THEN "null" ELSE v.json
String(v) ==
  CASE v.t = "undefined" -> "undefined"
    [] v.t = "null" -> "null"
    [] v.t = "object" -> "[object Object]"
    [] OTHER -> v.s

(***************************************************************************)
(* The values the interpreter itself throws.                               *)
(***************************************************************************)
SyntaxErrorValue == Obj("SyntaxError", "unexpected token", "", "{}")
InterruptedValue == Obj("InternalError", "interrupted", "", "{}")
OutOfMemoryValue == Obj("InternalError", "out of memory", "", "{}")
StackOverflowValue == Obj("InternalError", "stack overflow", "", "{}")
\* the host's own RangeError when the guest's recursion exhausts the host stack
HostStackMessage == "Maximum call stack size exceeded"

(***************************************************************************)
(* Guest programs.  body: statements run in order; end: how evaluation     *)
(* ends.  imports: the specifiers its import statements name, in order,    *)
(* each specifier as its '/'-separated segments.                           *)
(***************************************************************************)
Console(type, args) == [op |-> "console", type |-> type, args |-> args]
SetGlobal == [op |-> "setGlobal"]
AsyncError == [op |-> "asyncError"]
Prog(imports, body, end) == [imports |-> imports, body |-> body, end |-> end]
EndValue(v) == [kind |-> "value", v |-> v]
EndThrow(v) == [kind |-> "throw", v |-> v]
EndKind(k) == [kind |-> k, v |-> Undefined]

Programs ==
  << Prog(<< >>, << >>, EndValue(Undefined)),
     Prog(<< >>, << >>, EndValue(Str("undefined"))),
     Prog(<< >>, <<Console("log", <<Str("a"), Num("1")>>), Console("error", <<Obj("", "", "", "{\"k\": 1}")>>)>>,
          EndValue(Num("42"))),
     Prog(<< >>, <<SetGlobal>>, EndValue(Null)),
     Prog(<< >>, << >>, EndKind("global")),
     Prog(<< >>, <<Console("warn", <<Str("w")>>), Console("info", <<Undefined>>)>>,
          EndThrow(Obj("Error", "boom", "    at <eval>", "{}"))),
     Prog(<< >>, << >>, EndThrow(Str("Simple string error"))),
     Prog(<< >>, << >>, EndThrow(Str(""))),
     Prog(<< >>, << >>, EndThrow(Obj("", "", "", "{\"code\": 7}"))),
     Prog(<< >>, << >>, EndThrow(Num("7"))),
     Prog(<< >>, << >>, EndThrow(Undefined)),
     Prog(<< >>, << >>, EndKind("syntax")),
     Prog(<< >>, <<Console("log", <<Str("before loop")>>)>>, EndKind("loop")),
     Prog(<< >>, <<Console("log", <<Str("before oom")>>)>>, EndKind("oom")),
     Prog(<< >>, <<Console("log", <<Str("before overflow")>>)>>, EndKind("stack")),
     Prog(<< >>, <<AsyncError>>, EndValue(Num("2"))),
     Prog(<< <<"lodash", "debounce">>, <<".", "local-file">>, <<"react">>, <<"", "lodash">> >>,
          <<Console("log", <<Str("imported")>>)>>, EndValue(Num("3"))) >>

ProgramIds == 1 .. Len(Programs)
\* the programs the realm engine is run with
BProgramIds == {4, 5, 6, 11, 13, 16, 17}

\* the programs that end in one of the guest failures of the error taxonomy
GuestFailureKinds == {"throw", "syntax", "loop", "oom", "stack"}
\* the programs whose evaluation throws a value
Throws(p) == Programs[p].end.kind = "throw"


(***************************************************************************)
(* State.                                                                  *)
(***************************************************************************)
VARIABLES
  executorType,      \* the engine the caller drives: "quickjs" or "browser"
  hasDocument,       \* the host has a DOM (a browser), or none (node): fixed per run
  pc,                \* where the pending call of the caller stands; "idle" when none
  op,                \* the last method the caller called
  settled,           \* how that call settled: "none" (pending), "resolved", "rejected"
  thrown,            \* the message a rejected call rejected with
  result,            \* the ExecutionResult a resolved execute() resolved with
  code,              \* the program of the last execute() call (0: none yet)
  isInitialized,     \* this.isInitialized of the driven engine
  quickJSModule,     \* this.quickJSModule: 0 is null, n > 0 the n-th module created
  modulesCreated,    \* newQuickJSAsyncWASMModule() calls that returned a module
  interruptCycles,   \* the counter closed over by the interrupt handler of the runtime
  logs,              \* the logs array of the running interpreter execution
  vmGlobal,          \* globalThis.x of the context of the running execution
  ip,                \* the next statement of the running guest program
  liveHandles,       \* the context and handles created for the last execution and
                     \* not disposed
  iframe,            \* this.iframe: 0 is null, n > 0 the n-th iframe created
  iframesCreated,    \* document.createElement('iframe') calls that returned
  attached,          \* the iframes that are children of document.body
  packageImportMap,  \* this.packageImportMap: specifier -> URL
  realm,             \* per live iframe: its declared import map and window state
  toRealm,           \* execute-code messages posted and not yet handled: <<iframe, program>>
  expectReady,       \* history: an initialize() resolved and no dispose() was called since
  prevFailed,        \* history: the execute() before the last one ended with an error
  moduleName,        \* the specifier handed to resolveModuleUrl, as its tokens
  moduleUrl,         \* what resolveModuleUrl returned for it (None: not called yet)
  scanCode,          \* the source handed to parseModuleDeps, as its statements
  modules,           \* what parseModuleDeps returned for it (None: not called yet)
  codeItems,         \* localStorage: the code stored under 'npmjs-dev-code:' + package
  metadata,          \* localStorage: the 'npmjs-dev-metadata' record, package -> timestamp,
                     \* as its entries in key order ({} when the item is missing)
  now,               \* what Date.now() returns
  loadedCode,        \* what the last loadCodeFromStorage returned (None: null)
  storageCalls,      \* the calls of the cache functions made so far
  savedInOrder,      \* history: the packages saved so far, when they were distinct and
                     \* none of them was saved or read again (None otherwise)
  lastRead,          \* history: the package the call before read (0: it read none)
  lastSaved,         \* history: per package the code of its latest save, for the
                     \* packages that were not evicted or cleared since
  callers,           \* per caller sharing the store: where its cache call stands, and
                     \* the locals of that call
  completed,         \* history: the packages whose save returned and that no caller
                     \* evicted since
  pendingInit,       \* the initialize() calls that wait at their await, when calls
                     \* may overlap: the iframe each created, and whether dispose()
                     \* was called since it started
  initCalls,         \* the initialize() calls made so far, when calls may overlap
  afterDispose       \* history: what happened since the last dispose(): "dispose"
                     \* (nothing), "settled" (only initialize() calls that were
                     \* pending at it settled), "none" (initialize() was called, or
                     \* dispose() never was)

vars == << executorType, hasDocument, pc, op, settled, thrown, result, code, isInitialized,
           quickJSModule, modulesCreated, interruptCycles, logs, vmGlobal, ip, liveHandles,
           iframe, iframesCreated, attached, packageImportMap, realm, toRealm,
           expectReady, prevFailed, moduleName, moduleUrl, scanCode, modules,
           codeItems, metadata, now, loadedCode, storageCalls, savedInOrder, lastRead,
           lastSaved, callers, completed, pendingInit, initCalls, afterDispose >>

callVars == << op, settled, thrown, result, code >>
quickjsVars == << quickJSModule, modulesCreated, interruptCycles, logs, vmGlobal, ip,
                 liveHandles >>
browserVars == << iframe, iframesCreated, attached, packageImportMap, realm, toRealm >>
\* the state of the helpers that are checked on their own
resolverVars == << moduleName, moduleUrl >>
scannerVars == << scanCode, modules >>
storageVars == << codeItems, metadata, now, loadedCode, storageCalls, savedInOrder, lastRead,
                 lastSaved, callers, completed >>
\* the calls that overlap
overlapVars == << pendingInit, initCalls, afterDispose >>
utilVars == << resolverVars, scannerVars, storageVars, overlapVars >>

NoResult == [logs |-> << >>, returnValue |-> None, error |-> None]

(***************************************************************************)
(* JSExecutorEngine: formatting.                                           *)
(***************************************************************************)
RECURSIVE Join(_, _)
Join(parts, sep) ==
  IF parts = << >> THEN ""
  ELSE IF Len(parts) = 1 THEN parts[1]
  ELSE parts[1] \o sep \o Join(Tail(parts), sep)

\* one console argument: typeof arg === 'object' ? JSON.stringify(arg, null, 2) : String(arg)
FormatArg(v) == IF TypeofObject(v) THEN JSONStringify(v) ELSE String(v)

\* the LogEntry a console method pushes (the timestamp is not modelled)
LogEntry(type, args) ==
  [type |-> type, content |-> Join([i \in 1 .. Len(args) |-> FormatArg(args[i])], " ")]

formatErrorMessage(errorData) ==
  IF errorData.t = "string" THEN errorData.s
  ELSE IF errorData.t = "object" THEN
    LET head == IF errorData.name # "" /\ errorData.message # ""
                  THEN << errorData.name \o ": " \o errorData.message >>
                ELSE IF errorData.name # "" THEN << errorData.name >>
                ELSE IF errorData.message # "" THEN << errorData.message >>
                ELSE << >>
        errorParts == IF errorData.stack # "" THEN Append(head, errorData.stack) ELSE head
    IN IF Len(errorParts) > 0 THEN Join(errorParts, "\n") ELSE JSONStringify(errorData)
  ELSE String(errorData)

\* a return-value formatter that stringifies undefined like every other value
formatReturnValueAlwaysString(returnValue) == Some(String(returnValue))
formatReturnValue(returnValue) ==
  IF returnValue.t = "undefined" THEN None
  ELSE IF TypeofObject(returnValue) /\ returnValue.t # "null"
    THEN Some(JSONStringify(returnValue))
  ELSE Some(String(returnValue))

\* /stack overflow/i.test(errorMessage), over the messages of this model
StackOverflowSignature(errorMessage) ==
  errorMessage \in {"InternalError: stack overflow", "stack overflow"}

normalizedError(errorMessage) ==
  IF StackOverflowSignature(errorMessage)
    THEN "Execution error: Maximum call stack size exceeded"
  ELSE errorMessage

\* an error branch that drops the message
ErrorBranchNoError(l, errorData) == [logs |-> l, returnValue |-> None, error |-> None]
\* execute(): the three results it returns
ErrorBranch(l, errorData) ==
  [logs |-> l, returnValue |-> None, error |-> Some(normalizedError(formatErrorMessage(errorData)))]
ValueBranch(l, value) ==
  [logs |-> l, returnValue |-> formatReturnValue(value), error |-> None]
CatchBranch(message) ==
  [logs |-> << >>, returnValue |-> None, error |-> Some("Execution error: " \o message)]

(***************************************************************************)
(* JSExecutorEngine: configureRuntime.                                     *)
(***************************************************************************)
InterruptBudget == 1024
\* () => ++interruptCycles > 1024 : the counter after the call, and the answer
InterruptCountStuck(c) == c
InterruptCount(c) == c + 1
\* a handler that aborts as soon as the budget is used up
InterruptAbortAtBudget(c) == InterruptCount(c) >= InterruptBudget
InterruptAbort(c) == InterruptCount(c) > InterruptBudget


(***************************************************************************)
(* JSExecutorEngine: initialize, dispose, isReady.                         *)
(***************************************************************************)
QIsReady == isInitialized /\ quickJSModule # 0

NotInitializedMessage == "Execution engine is not initialized yet"

\* a guard that never returns early
AlreadyInitializedNever == FALSE
\* if (this.isInitialized) return   -- the first line of both initialize()
AlreadyInitialized == isInitialized

\* initialize() up to its await: the early return, or the module request
QInitialize ==
  /\ executorType = "quickjs" /\ pc = "idle"
  /\ op' = "initialize"
  /\ IF AlreadyInitialized
       THEN /\ settled' = "resolved"
            /\ UNCHANGED pc
       ELSE /\ modulesCreated < MaxModules
            /\ settled' = "none"
            /\ pc' = "q_init"
  /\ UNCHANGED << executorType, hasDocument, utilVars, thrown, result, code, isInitialized, quickjsVars,
                  browserVars, expectReady, prevFailed >>

\* newQuickJSAsyncWASMModule() resolved
QInitializeResolve ==
  /\ pc = "q_init"
  /\ quickJSModule' = modulesCreated + 1
  /\ modulesCreated' = modulesCreated + 1
  /\ isInitialized' = TRUE
  /\ settled' = "resolved"
  /\ pc' = "idle"
  /\ expectReady' = TRUE
  /\ UNCHANGED << executorType, hasDocument, utilVars, op, thrown, result, code, interruptCycles, logs,
                  vmGlobal, ip, liveHandles, browserVars, prevFailed >>

\* newQuickJSAsyncWASMModule() rejected: the catch rethrows
QInitializeReject ==
  /\ pc = "q_init"
  /\ settled' = "rejected"
  /\ thrown' = "QuickJS initialization failed"
  /\ pc' = "idle"
  /\ UNCHANGED << executorType, hasDocument, utilVars, op, result, code, isInitialized, quickjsVars,
                  browserVars, expectReady, prevFailed >>

QDispose ==
  /\ executorType = "quickjs" /\ pc = "idle"
  /\ quickJSModule' = 0
  /\ isInitialized' = FALSE
  /\ op' = "dispose"
  /\ settled' = "resolved"
  /\ expectReady' = FALSE
  /\ UNCHANGED << executorType, hasDocument, utilVars, pc, thrown, result, code, modulesCreated,
                  interruptCycles, logs, vmGlobal, ip, liveHandles, browserVars, prevFailed >>

(***************************************************************************)
(* JSExecutorEngine: execute.                                              *)
(***************************************************************************)
\* the handles setupConsole returns
ConsoleHandles == {"consoleLogHandle", "consoleErrorHandle", "consoleWarnHandle",
                   "consoleInfoHandle", "consoleHandle"}
\* this.cleanup(consoleHandles); result.error.dispose() or result.value.dispose();
\* vm.dispose()  -- the clean-up of the error branch and of the value branch
DisposeAll(handles) == (handles \ ConsoleHandles) \ {"result", "vm"}

\* execute() without its guard
QNotReadyGuardMissing == FALSE
\* the guard of execute(): !this.quickJSModule || !this.isInitialized
QNotReadyGuard == quickJSModule = 0 \/ ~isInitialized

\* execute() up to its await: the rejection, or a fresh runtime and context
QExecute(p) ==
  /\ executorType = "quickjs" /\ pc = "idle"
  /\ op' = "execute"
  /\ code' = p
  /\ prevFailed' = (result.error # None)
  /\ IF QNotReadyGuard
       THEN /\ settled' = "rejected"
            /\ thrown' = NotInitializedMessage
            /\ UNCHANGED << pc, interruptCycles, logs, vmGlobal, ip, liveHandles >>
       ELSE /\ settled' = "none"
            /\ pc' = "q_eval"
            /\ interruptCycles' = 0
            /\ logs' = << >>
            /\ vmGlobal' = Undefined
            /\ ip' = 1
            /\ liveHandles' = {"vm"} \cup ConsoleHandles
            /\ UNCHANGED thrown
  /\ UNCHANGED << executorType, hasDocument, utilVars, result, isInitialized, quickJSModule, modulesCreated,
                  browserVars, expectReady >>

\* execute() returns r
QReturn(r) ==
  /\ result' = r
  /\ settled' = "resolved"
  /\ pc' = "idle"
  /\ UNCHANGED << executorType, hasDocument, utilVars, op, thrown, code, isInitialized, quickJSModule,
                  modulesCreated, browserVars, expectReady, prevFailed >>

\* the guest runs its next statement inside vm.evalCodeAsync
QStatement ==
  /\ pc = "q_eval"
  /\ Programs[code].end.kind # "syntax"
  /\ ip <= Len(Programs[code].body)
  /\ LET st == Programs[code].body[ip] IN
       /\ logs' = IF st.op = "console" THEN Append(logs, LogEntry(st.type, st.args)) ELSE logs
       /\ vmGlobal' = IF st.op = "setGlobal" THEN Str("dirty") ELSE vmGlobal
  /\ ip' = ip + 1
  /\ UNCHANGED << executorType, hasDocument, utilVars, pc, callVars, isInitialized, quickJSModule,
                  modulesCreated, interruptCycles, liveHandles, browserVars, expectReady,
                  prevFailed >>

QAtEnd == pc = "q_eval" /\ (Programs[code].end.kind = "syntax" \/ ip > Len(Programs[code].body))

\* the guest spins: the interpreter polls the interrupt handler
QInterrupt ==
  /\ QAtEnd
  /\ Programs[code].end.kind = "loop"
  /\ interruptCycles' = InterruptCount(interruptCycles)
  /\ IF InterruptAbort(interruptCycles)
       THEN /\ QReturn(ErrorBranch(logs, InterruptedValue))
            /\ liveHandles' = DisposeAll(liveHandles \cup {"result"})
       ELSE UNCHANGED << executorType, hasDocument, utilVars, pc, callVars, isInitialized, quickJSModule,
                         modulesCreated, liveHandles, browserVars, expectReady, prevFailed >>
  /\ UNCHANGED << logs, vmGlobal, ip >>

\* what evalCodeAsync hands back for each ending: <<"error" | "value", handle>>
QEvalResult(end, global) ==
  CASE end.kind = "value" -> << "value", end.v >>
    [] end.kind = "global" -> << "value", global >>
    [] end.kind = "throw" -> << "error", end.v >>
    [] end.kind = "syntax" -> << "error", SyntaxErrorValue >>
    [] end.kind = "oom" -> << "error", OutOfMemoryValue >>
    [] end.kind = "stack" -> << "error", StackOverflowValue >>

\* vm.evalCodeAsync resolved: the error branch or the value branch
QComplete ==
  /\ QAtEnd
  /\ Programs[code].end.kind # "loop"
  /\ LET r == QEvalResult(Programs[code].end, vmGlobal) IN
       QReturn(IF r[1] = "error" THEN ErrorBranch(logs, r[2]) ELSE ValueBranch(logs, r[2]))
  /\ liveHandles' = DisposeAll(liveHandles \cup {"result"})
  /\ UNCHANGED << interruptCycles, logs, vmGlobal, ip >>

\* the guest's recursion exhausts the host stack: evalCodeAsync throws, the catch returns
QHostException ==
  /\ QAtEnd
  /\ Programs[code].end.kind = "stack"
  /\ QReturn(CatchBranch(HostStackMessage))
  /\ UNCHANGED << interruptCycles, logs, vmGlobal, ip, liveHandles >>

QNext ==
  \/ QInitialize
  \/ QInitializeResolve
  \/ QInitializeReject
  \/ QDispose
  \/ \E p \in ProgramIds : QExecute(p)
  \/ QStatement
  \/ QInterrupt
  \/ QComplete
  \/ QHostException


(***************************************************************************)
(* BrowserExecutorEngine: the import map.                                  *)
(***************************************************************************)
SpecifierText(segments) == Join(segments, "/")

\* packageName.startsWith('http') and packageName.startsWith('@'), over the
\* first segments this model uses
HttpPrefixed == {"http:", "https:", "http-proxy"}
StartsWithHttp(segments) == segments[1] \in HttpPrefixed
StartsWithAt(segments) == segments[1] \in {"@babel", "@types"}
StartsWithDot(segments) == Len(segments) >= 2 /\ segments[1] \in {".", ".."}

\* m[k] = v, adding k when it is not a key
MapSet(m, k, v) == [x \in DOMAIN m \cup {k} |-> IF x = k THEN v ELSE m[x]]
EmptyMap == [x \in {} |-> ""]

basePackage(segments) ==
  IF StartsWithAt(segments)
    THEN IF Len(segments) >= 2 THEN SubSeq(segments, 1, 2) ELSE segments
  ELSE SubSeq(segments, 1, 1)

\* the body of the while loop of parseAndAddImports for one match
AddImport(m, segments) ==
  IF StartsWithDot(segments) \/ StartsWithHttp(segments) THEN m
  ELSE
    LET packageName == SpecifierText(segments)
        base == SpecifierText(basePackage(segments))
        m1 == IF packageName \notin DOMAIN m
                THEN MapSet(m, packageName, "https://esm.sh/" \o packageName)
              ELSE m
    IN IF base # packageName /\ base \notin DOMAIN m1
         THEN MapSet(MapSet(m1, base, "https://esm.sh/" \o base),
                     base \o "/", "https://esm.sh/" \o base \o "/")
       ELSE m1

RECURSIVE parseAndAddImports(_, _)
parseAndAddImports(m, imports) ==
  IF imports = << >> THEN m
  ELSE parseAndAddImports(AddImport(m, Head(imports)), Tail(imports))

\* an addPackage that starts the map afresh
addPackageAfresh(m, segments, version) ==
  LET packageName == SpecifierText(segments) IN
    MapSet(MapSet(EmptyMap, packageName, "https://esm.sh/" \o packageName),
           packageName \o "/", "https://esm.sh/" \o packageName \o "/")

\* addPackage(packageName, version): version "" is the omitted argument
addPackage(m, segments, version) ==
  LET packageName == SpecifierText(segments)
      versionSuffix == IF version # "" THEN "@" \o version ELSE ""
      m1 == MapSet(m, packageName, "https://esm.sh/" \o packageName \o versionSuffix)
  IN IF segments[Len(segments)] # ""
       THEN MapSet(m1, packageName \o "/", "https://esm.sh/" \o packageName \o versionSuffix \o "/")
     ELSE m1

AddablePackages == { <<"lodash">> }
Versions == {"", "4.17.21"}

\* packages.forEach(packageName => this.addPackage(packageName))
RECURSIVE setPackagesFromUrl(_, _)
setPackagesFromUrl(m, packages) ==
  IF packages = << >> THEN m
  ELSE setPackagesFromUrl(addPackage(m, Head(packages), ""), Tail(packages))

\* the package lists of the URL routes this model visits
UrlPackages == { << <<"@babel", "core">>, <<"lodash">> >> }

(***************************************************************************)
(* BrowserExecutorEngine: the iframe and its realm.                        *)
(***************************************************************************)
BIsReady == isInitialized /\ iframe # 0

\* the window state of a freshly created iframe document, before it loads
\* (running: the program of the executeCode call in progress, 0 when none)
NewRealm(m) ==
  [imports |-> DOMAIN m, loaded |-> FALSE, global |-> Undefined, hung |-> FALSE,
   running |-> 0]

\* f without the key k
Without(f, k) == [x \in DOMAIN f \ {k} |-> f[x]]

\* error.toString() of a thrown value inside the realm
RealmErrorText(v) ==
  IF v.t = "object"
    THEN IF v.name # "" /\ v.message # "" THEN v.name \o ": " \o v.message
         ELSE IF v.name # "" THEN v.name
         ELSE "[object Object]"
  ELSE String(v)

\* typeof r === 'object' ? JSON.stringify(r, null, 2) : String(r)
RealmReturnText(v) == IF TypeofObject(v) THEN JSONStringify(v) ELSE String(v)

\* module.default !== undefined ? module.default : module
ModuleNamespace == Obj("", "", "", "{}")
RealmExecutionResult(v) == IF v.t # "undefined" THEN v ELSE ModuleNamespace


\* iframe.parentNode.removeChild(iframe): the document, its realm and the
\* messages queued for it go with it
DetachedSet == attached \ {iframe}
DetachedRealm == IF iframe \in DOMAIN realm THEN Without(realm, iframe) ELSE realm
DetachedQueue == {m \in toRealm : m[1] # iframe}

(***************************************************************************)
(* BrowserExecutorEngine: initialize, dispose, package methods.            *)
(***************************************************************************)
InitFailedMessage == "Browser executor initialization failed"

\* initialize() up to its await: the early return, document.createElement
\* throwing where there is no document, or the iframe created and appended
BInitialize ==
  /\ executorType = "browser" /\ pc = "idle"
  /\ op' = "initialize"
  /\ IF AlreadyInitialized
       THEN /\ settled' = "resolved"
            /\ UNCHANGED << pc, thrown, iframe, iframesCreated, attached, realm >>
       ELSE IF ~hasDocument
         THEN /\ settled' = "rejected"
              /\ thrown' = InitFailedMessage
              /\ UNCHANGED << pc, iframe, iframesCreated, attached, realm >>
       ELSE /\ iframesCreated < MaxIframes
            /\ iframe' = iframesCreated + 1
            /\ iframesCreated' = iframesCreated + 1
            /\ attached' = attached \cup {iframesCreated + 1}
            /\ realm' = MapSet(realm, iframesCreated + 1, NewRealm(packageImportMap))
            /\ settled' = "none"
            /\ pc' = "b_init"
            /\ UNCHANGED thrown
  /\ UNCHANGED << executorType, hasDocument, utilVars, result, code, isInitialized, quickjsVars,
                  packageImportMap, toRealm, expectReady, prevFailed >>

\* the iframe-ready message, or the 3 s fallback timer
BInitializeReady ==
  /\ pc = "b_init"
  /\ isInitialized' = TRUE
  /\ settled' = "resolved"
  /\ pc' = "idle"
  /\ expectReady' = TRUE
  /\ UNCHANGED << executorType, hasDocument, utilVars, op, thrown, result, code, quickjsVars, browserVars,
                  prevFailed >>

BDispose ==
  /\ executorType = "browser" /\ pc = "idle"
  /\ attached' = DetachedSet
  /\ realm' = DetachedRealm
  /\ toRealm' = DetachedQueue
  /\ iframe' = 0
  /\ isInitialized' = FALSE
  /\ op' = "dispose"
  /\ settled' = "resolved"
  /\ expectReady' = FALSE
  /\ UNCHANGED << executorType, hasDocument, utilVars, pc, thrown, result, code, quickjsVars, iframesCreated,
                  packageImportMap, prevFailed >>

BAddPackage(segments, version) ==
  /\ executorType = "browser" /\ pc = "idle"
  /\ packageImportMap' = addPackage(packageImportMap, segments, version)
  /\ UNCHANGED << executorType, hasDocument, utilVars, pc, callVars, isInitialized, quickjsVars, iframe,
                  iframesCreated, attached, realm, toRealm, expectReady, prevFailed >>

BSetPackagesFromUrl(packages) ==
  /\ executorType = "browser" /\ pc = "idle"
  /\ packageImportMap' = setPackagesFromUrl(packageImportMap, packages)
  /\ UNCHANGED << executorType, hasDocument, utilVars, pc, callVars, isInitialized, quickjsVars, iframe,
                  iframesCreated, attached, realm, toRealm, expectReady, prevFailed >>

BClearPackages ==
  /\ executorType = "browser" /\ pc = "idle"
  /\ packageImportMap' = EmptyMap
  /\ UNCHANGED << executorType, hasDocument, utilVars, pc, callVars, isInitialized, quickjsVars, iframe,
                  iframesCreated, attached, realm, toRealm, expectReady, prevFailed >>

(***************************************************************************)
(* BrowserExecutorEngine: execute.                                         *)
(***************************************************************************)
BCatchBranch(message) ==
  [logs |-> << >>, returnValue |-> None, error |-> Some("Browser execution error: " \o message)]

\* an execute() that rebuilds the iframe only when the engine is not initialized
BNeedsReinitWhenDown(m) == ~isInitialized
\* the condition under which execute() calls reinitializeIframe()
BNeedsReinit(m) == ~isInitialized \/ DOMAIN m # {}

\* execute() up to its first await
BExecute(p) ==
  /\ executorType = "browser" /\ pc = "idle"
  /\ op' = "execute"
  /\ code' = p
  /\ prevFailed' = (result.error # None)
  /\ LET m == parseAndAddImports(packageImportMap, Programs[p].imports) IN
       /\ packageImportMap' = m
       /\ IF BNeedsReinit(m)
            THEN \* reinitializeIframe(): remove, then initialize() again
                 /\ isInitialized' = FALSE
                 /\ toRealm' = DetachedQueue
                 /\ IF ~hasDocument
                      THEN /\ iframe' = 0
                           /\ attached' = DetachedSet
                           /\ realm' = DetachedRealm
                           /\ result' = BCatchBranch(InitFailedMessage)
                           /\ settled' = "resolved"
                           /\ UNCHANGED << pc, iframesCreated >>
                    ELSE /\ iframesCreated < MaxIframes
                         /\ iframe' = iframesCreated + 1
                         /\ iframesCreated' = iframesCreated + 1
                         /\ attached' = DetachedSet \cup {iframesCreated + 1}
                         /\ realm' = MapSet(DetachedRealm, iframesCreated + 1, NewRealm(m))
                         /\ settled' = "none"
                         /\ pc' = "b_reinit"
                         /\ UNCHANGED result
            ELSE IF iframe = 0 \/ ~isInitialized
              THEN /\ result' = BCatchBranch("Browser executor is not initialized yet")
                   /\ settled' = "resolved"
                   /\ UNCHANGED << pc, isInitialized, iframe, iframesCreated, attached,
                                   realm, toRealm >>
            ELSE /\ Cardinality(toRealm) < MaxQueued
                 /\ toRealm' = toRealm \cup {<< iframe, p >>}
                 /\ settled' = "none"
                 /\ pc' = "b_wait"
                 /\ UNCHANGED << result, isInitialized, iframe, iframesCreated, attached, realm >>
  /\ UNCHANGED << executorType, hasDocument, utilVars, thrown, quickjsVars, expectReady >>

\* the rebuilt iframe is ready (message or 3 s timer): initialize() sets the
\* flag and returns, execute() goes on to post the request
BReinitReady ==
  /\ pc = "b_reinit"
  /\ isInitialized' = TRUE
  /\ IF iframe = 0
       THEN /\ result' = BCatchBranch("Browser executor is not initialized yet")
            /\ settled' = "resolved"
            /\ pc' = "idle"
            /\ UNCHANGED toRealm
       ELSE /\ toRealm' = toRealm \cup {<< iframe, code >>}
            /\ pc' = "b_wait"
            /\ UNCHANGED << result, settled >>
  /\ UNCHANGED << executorType, hasDocument, utilVars, op, thrown, code, quickjsVars, iframe, iframesCreated,
                  attached, packageImportMap, realm, expectReady, prevFailed >>

\* a timer whose failure is caught by the catch block of execute()
BExecuteTimeoutCaught ==
  /\ pc = "b_wait"
  /\ result' = [logs |-> << >>, returnValue |-> None,
                error |-> Some("Browser execution error: Execution timeout")]
  /\ settled' = "resolved"
  /\ pc' = "idle"
  /\ UNCHANGED << executorType, hasDocument, utilVars, op, thrown, code, isInitialized,
                  quickjsVars, browserVars, expectReady, prevFailed >>
\* the 30 s timer of execute(): the returned promise rejects
BExecuteTimeout ==
  /\ pc = "b_wait"
  /\ settled' = "rejected"
  /\ thrown' = "Execution timeout"
  /\ pc' = "idle"
  /\ UNCHANGED << executorType, hasDocument, utilVars, op, result, code, isInitialized, quickjsVars,
                  browserVars, expectReady, prevFailed >>


(***************************************************************************)
(* The script inside the iframe.  window.executionLogs and                 *)
(* window.executionError are reset at the start of every executeCode, so   *)
(* only the global object outlives a run; one run of executeCode is one    *)
(* step of the realm.                                                      *)
(***************************************************************************)
\* the document has loaded: its module script ran and listens for requests
RealmLoad(i) ==
  /\ i \in attached
  /\ ~realm[i].loaded
  /\ realm' = [realm EXCEPT ![i].loaded = TRUE]
  /\ UNCHANGED << executorType, hasDocument, utilVars, pc, callVars, isInitialized, quickjsVars, iframe,
                  iframesCreated, attached, packageImportMap, toRealm, expectReady,
                  prevFailed >>

\* an execute-code message reaches a document that does not listen yet, or
\* one whose only thread never returns from an earlier import
RealmMiss(i, p) ==
  /\ << i, p >> \in toRealm
  /\ ~realm[i].loaded \/ realm[i].hung
  /\ toRealm' = toRealm \ {<< i, p >>}
  /\ UNCHANGED << executorType, hasDocument, utilVars, pc, callVars, isInitialized, quickjsVars, iframe,
                  iframesCreated, attached, packageImportMap, realm, expectReady,
                  prevFailed >>

\* the uncaught failure the error / unhandledrejection listeners record
AsyncErrorText == "Error: uncaught"

\* the window state after the statements of the imported module have run
RECURSIVE RealmRun(_, _)
RealmRun(w, body) ==
  IF body = << >> THEN w
  ELSE LET st == Head(body) IN
    RealmRun([executionLogs |-> IF st.op = "console"
                                  THEN Append(w.executionLogs, LogEntry(st.type, st.args))
                                ELSE w.executionLogs,
              global |-> IF st.op = "setGlobal" THEN Str("dirty") ELSE w.global,
              executionError |-> IF st.op = "asyncError" THEN Some(AsyncErrorText)
                                 ELSE w.executionError],
             Tail(body))

\* window.executeCode up to the end of the import: the reset, then the module
RealmWindow(global, prog) ==
  RealmRun([executionLogs |-> << >>, global |-> global, executionError |-> None],
           IF prog.end.kind = "syntax" THEN << >> ELSE prog.body)

\* what import(moduleUrl) does for each ending: <<"error" | "value", value>>
RealmImportResult(end, global) ==
  CASE end.kind = "value" -> << "value", end.v >>
    [] end.kind = "global" -> << "value", global >>
    [] end.kind = "throw" -> << "error", end.v >>
    [] end.kind = "syntax" -> << "error", SyntaxErrorValue >>
    [] end.kind = "stack" -> << "error", Obj("RangeError", HostStackMessage, "", "{}") >>

\* the object window.executeCode returns
RealmResult(w, imported) ==
  IF imported[1] = "value"
    THEN [logs |-> w.executionLogs,
          returnValue |-> Some(RealmReturnText(RealmExecutionResult(imported[2]))),
          error |-> w.executionError]
  ELSE [logs |-> w.executionLogs, returnValue |-> None,
        error |-> Some(RealmErrorText(imported[2]))]

\* error.toString() of the catch block itself throws: nothing is posted
RealmCatchThrows(imported) == imported[1] = "error" /\ imported[2].t \in {"undefined", "null"}

\* the endings after which the realm never returns to its event loop
RealmHangs(end) == end.kind \in {"loop", "oom"}

\* handleMessage of execute(): resolve with the posted result
BHandleMessage(posted) ==
  [logs |-> posted.logs, returnValue |-> posted.returnValue, error |-> posted.error]

\* the message listener runs window.executeCode(code) and posts what it
\* returns to the parent, where the listener of a waiting execute(), if
\* there is one, resolves with it
RealmExecute(i, p) ==
  /\ << i, p >> \in toRealm
  /\ realm[i].loaded /\ ~realm[i].hung
  /\ toRealm' = toRealm \ {<< i, p >>}
  /\ LET w == RealmWindow(realm[i].global, Programs[p]) IN
       /\ realm' = [realm EXCEPT ![i].global = w.global,
                                 ![i].hung = RealmHangs(Programs[p].end)]
       /\ IF RealmHangs(Programs[p].end) THEN UNCHANGED << result, settled, pc >>
          ELSE LET imported == RealmImportResult(Programs[p].end, w.global) IN
            IF pc = "b_wait" /\ ~RealmCatchThrows(imported)
              THEN /\ result' = BHandleMessage(RealmResult(w, imported))
                   /\ settled' = "resolved"
                   /\ pc' = "idle"
            ELSE UNCHANGED << result, settled, pc >>
  /\ UNCHANGED << executorType, hasDocument, utilVars, op, thrown, code, isInitialized, quickjsVars, iframe,
                  iframesCreated, attached, packageImportMap, expectReady, prevFailed >>

BNext ==
  \/ BInitialize
  \/ BInitializeReady
  \/ BDispose
  \/ \E segments \in AddablePackages, version \in Versions : BAddPackage(segments, version)
  \/ \E packages \in UrlPackages : BSetPackagesFromUrl(packages)
  \/ BClearPackages
  \/ \E p \in BProgramIds : BExecute(p)
  \/ BReinitReady
  \/ BExecuteTimeout
  \/ \E i \in DOMAIN realm : RealmLoad(i)
  \/ \E m \in toRealm : RealmMiss(m[1], m[2])
  \/ \E m \in toRealm : RealmExecute(m[1], m[2])

(***************************************************************************)
(* The code cache in localStorage.  A package name is a number (0: the     *)
(* empty string, n: 'package-n'); the metadata record is the sequence of   *)
(* its entries in Object.keys order, which is the order of insertion.      *)
(***************************************************************************)
MAX_ITEMS == 100

\* Object.keys(metadata)
Packages(md) == { md[i].pkg : i \in 1 .. Len(md) }

\* a record whose timestamps are written once and never refreshed
SetTimestampOnce(md, pkg, t) ==
  IF pkg \in Packages(md) THEN md ELSE Append(md, [pkg |-> pkg, ts |-> t])
\* metadata[packageName] = Date.now()
SetTimestamp(md, pkg, t) ==
  IF pkg \in Packages(md)
    THEN [i \in 1 .. Len(md) |-> IF md[i].pkg = pkg THEN [pkg |-> pkg, ts |-> t] ELSE md[i]]
  ELSE Append(md, [pkg |-> pkg, ts |-> t])

\* the scan of enforceStorageLimit: the first package with the lowest
\* timestamp (timestamps are positive, so `|| 0` changes none)
OldestPackage(md) ==
  LET i == CHOOSE i \in 1 .. Len(md) :
             /\ \A j \in 1 .. Len(md) : md[i].ts <= md[j].ts
             /\ \A j \in 1 .. i - 1 : md[j].ts > md[i].ts
  IN md[i].pkg

\* a limit that is enforced one item too late
OverLimit(md) == Len(md) > MAX_ITEMS
\* packages.length >= MAX_ITEMS
AtLimit(md) == Len(md) >= MAX_ITEMS

\* the storage as enforceStorageLimit() leaves it
enforceStorageLimit(items, md) ==
  IF AtLimit(md)
    THEN LET oldestPackage == OldestPackage(md) IN
      [items |-> Without(items, oldestPackage),
       metadata |-> SelectSeq(md, LAMBDA e : e.pkg # oldestPackage)]
  ELSE [items |-> items, metadata |-> md]

\* the storage as saveCodeToStorage(packageName, code) leaves it at time t
\* (text: the code)
saveCodeToStorage(items, md, packageName, text, t) ==
  IF packageName = 0 \/ text = "" THEN [items |-> items, metadata |-> md]
  ELSE LET s == enforceStorageLimit(items, md) IN
    [items |-> MapSet(s.items, packageName, text),
     metadata |-> SetTimestamp(s.metadata, packageName, t)]

\* what loadCodeFromStorage(packageName) returns
loadCodeFromStorage(items, packageName) ==
  IF packageName # 0 /\ packageName \in DOMAIN items THEN Some(items[packageName]) ELSE None

\* a clear that removes the metadata record only
clearAllStorageMetadataOnly(items, md) == items
\* the items clearAllStorage() leaves: those no metadata entry names
clearAllStorage(items, md) == [x \in DOMAIN items \ Packages(md) |-> items[x]]

getStorageCount(md) == Len(md)

\* the callers sharing the store (two tabs of the application), and the
\* locals of a caller that is in no cache function
Callers == {"tab1", "tab2"}
IdleCaller == [pc |-> "idle", packageName |-> 0, text |-> "", metadata |-> << >>]

\* the storage an earlier session left by saving the packages 1 .. n in this
\* order, each in a millisecond of its own or all within one
SavedBefore(n, sameMs) ==
  [items |-> [x \in 1 .. n |-> "v1"],
   metadata |-> [i \in 1 .. n |-> [pkg |-> i, ts |-> IF sameMs THEN MAX_ITEMS ELSE i]]]


(***************************************************************************)
(* The system: one engine instance, freshly constructed, and its caller.   *)
(***************************************************************************)
EngineInit ==
  /\ executorType \in {"quickjs", "browser"}
  /\ hasDocument \in (IF executorType = "browser" THEN BOOLEAN ELSE {TRUE})
  /\ pc = "idle"
  /\ op = "none"
  /\ settled = "none"
  /\ thrown = ""
  /\ result = NoResult
  /\ code = 0
  /\ isInitialized = FALSE
  /\ quickJSModule = 0
  /\ modulesCreated = 0
  /\ interruptCycles = 0
  /\ logs = << >>
  /\ vmGlobal = Undefined
  /\ liveHandles = {}
  /\ ip = 1
  /\ iframe = 0
  /\ iframesCreated = 0
  /\ attached = {}
  /\ packageImportMap = EmptyMap
  /\ realm = [x \in {} |-> NewRealm(EmptyMap)]
  /\ toRealm = {}
  /\ expectReady = FALSE
  /\ prevFailed = FALSE

\* no caller is inside a cache function
CallersAtRest == callers = [c \in Callers |-> IdleCaller]

\* the helpers at rest
ResolverAtRest == moduleName = << >> /\ moduleUrl = None
ScannerAtRest == scanCode = << >> /\ modules = None
StorageAtRest ==
  /\ codeItems = EmptyMap
  /\ metadata = << >>
  /\ now = MAX_ITEMS
  /\ loadedCode = None
  /\ storageCalls = 0
  /\ savedInOrder = Some(<< >>)
  /\ lastRead = 0
  /\ lastSaved = EmptyMap
  /\ CallersAtRest
  /\ completed = {}
NoOverlap == pendingInit = {} /\ initCalls = 0 /\ afterDispose = "none"
UtilInit == ResolverAtRest /\ ScannerAtRest /\ StorageAtRest /\ NoOverlap

Init == EngineInit /\ UtilInit

Next == QNext \/ BNext

Spec == Init /\ [][Next]_vars


(***************************************************************************)
(* The interpreter engine alone, with the scheduling its host guarantees:  *)
(* the interpreter keeps running the guest and keeps polling the interrupt *)
(* handler, and a settled evalCodeAsync promise resumes execute().         *)
(***************************************************************************)
QInit == Init /\ executorType = "quickjs"

QFairSpec ==
  /\ QInit
  /\ [][QNext]_vars
  /\ WF_vars(QStatement)
  /\ WF_vars(QInterrupt)
  /\ WF_vars(QComplete \/ QHostException)


(***************************************************************************)
(* The realm engine alone, with the scheduling its host guarantees: a      *)
(* timer that was set fires.                                               *)
(***************************************************************************)
BInit == Init /\ executorType = "browser"

BFairSpec ==
  /\ BInit
  /\ [][BNext]_vars
  /\ WF_vars(BExecuteTimeout)


(***************************************************************************)
(* JSExecutorEngine.resolveModuleUrl.  A specifier is the sequence of its  *)
(* tokens: a word is a maximal run of [\w-] characters, every other token  *)
(* is one character; its text is the concatenation of the tokens.          *)
(***************************************************************************)
WordTokens == {"http", "https", "pkg"}
PunctTokens == {":", "/", "@", "."}
IsWord(t) == t \notin PunctTokens

\* words are maximal: no two of them are adjacent
Specifiers ==
  { s \in UNION { [1 .. n -> WordTokens \cup PunctTokens] : n \in 0 .. MaxSpecifierLen } :
      \A i \in 1 .. Len(s) - 1 : ~(IsWord(s[i]) /\ IsWord(s[i + 1])) }

\* moduleName.startsWith(prefix)
StartsWith(s, prefix) == Len(s) >= Len(prefix) /\ SubSeq(s, 1, Len(prefix)) = prefix

\* moduleName.match(/^\/(@?[\w-]+\/)?[\w-]+/): a slash, then a word, either
\* at once or after the optional group of '@'?, a word and a slash
MatchesPackagePath(s) ==
  /\ Len(s) >= 2 /\ s[1] = "/"
  /\ \/ IsWord(s[2])
     \/ LET j == IF s[2] = "@" THEN 3 ELSE 2 IN
          /\ Len(s) >= j + 2
          /\ IsWord(s[j]) /\ s[j + 1] = "/" /\ IsWord(s[j + 2])

EsmRoot == "https://esm.sh"

resolveModuleUrl(s) ==
  IF StartsWith(s, <<"http", ":", "/", "/">>) \/ StartsWith(s, <<"https", ":", "/", "/">>)
    THEN Join(s, "")
  ELSE IF MatchesPackagePath(s) THEN EsmRoot \o Join(s, "")
  ELSE EsmRoot \o "/" \o Join(s, "")

\* the tokens of a specifier that is given by its '/'-separated segments
SegmentTokens(segment) ==
  CASE segment = "" -> << >>
    [] segment = "." -> <<".">>
    [] segment = ".." -> <<".", ".">>
    [] segment = "@babel" -> <<"@", "babel">>
    [] segment = "@types" -> <<"@", "types">>
    [] segment = "http:" -> <<"http", ":">>
    [] segment = "https:" -> <<"https", ":">>
    [] OTHER -> << segment >>

RECURSIVE SpecifierTokens(_)
SpecifierTokens(segments) ==
  IF segments = << >> THEN << >>
  ELSE IF Len(segments) = 1 THEN SegmentTokens(segments[1])
  ELSE SegmentTokens(segments[1]) \o <<"/">> \o SpecifierTokens(Tail(segments))

\* the module loader resolves the specifier of an import
ResolveModuleUrl ==
  /\ moduleUrl = None
  /\ moduleUrl' = Some(resolveModuleUrl(moduleName))
  /\ UNCHANGED << executorType, hasDocument, pc, callVars, isInitialized, quickjsVars,
                  browserVars, expectReady, prevFailed, moduleName, scannerVars,
                  storageVars, overlapVars >>

\* one interpreter engine and one specifier of the bounded set
ResolveInit ==
  /\ EngineInit /\ executorType = "quickjs"
  /\ moduleName \in Specifiers
  /\ moduleUrl = None
  /\ ScannerAtRest /\ StorageAtRest /\ NoOverlap

ResolveSpec == ResolveInit /\ [][ResolveModuleUrl]_vars


(***************************************************************************)
(* parseModuleDeps.  A source is the sequence of its tokens, separated by  *)
(* white space: keywords and identifiers (runs of [\w$]), punctuation, and *)
(* quoted strings.                                                         *)
(***************************************************************************)
StringTokens == {"'x'", "'y'", "'z'"}
\* ([^'"`]+): the text between the quotes
Unquote(t) == CASE t = "'x'" -> "x" [] t = "'y'" -> "y" [] t = "'z'" -> "z"
\* [\w$]+
IsIdentifier(t) == t \in {"import", "export", "from", "as", "default", "a"}

\* \{[^}]*\}: the brace at j is closed by the first '}' after it (0: none)
BlockEnd(s, j) ==
  LET ks == { k \in j + 1 .. Len(s) : s[k] = "}" } IN
    IF ks = {} THEN 0 ELSE CHOOSE k \in ks : \A l \in ks : k <= l

\* (?:\{[^}]*\}|\*(?:\s+as\s+\w+)?|[\w$]+): where a clause starting at j may end
ClauseEnds(s, j) ==
  IF j > Len(s) THEN {}
  ELSE IF s[j] = "{" THEN { BlockEnd(s, j) } \ {0}
  ELSE IF s[j] = "*"
    THEN {j} \cup (IF j + 2 <= Len(s) /\ s[j + 1] = "as" /\ IsIdentifier(s[j + 2])
                     THEN {j + 2} ELSE {})
  ELSE IF IsIdentifier(s[j]) THEN {j}
  ELSE {}

\* the optional group: (?:[\w$]+\s*,\s*)? before the clause, \s+from\s+ and
\* the opening quote after it
FromClauseEnds(s, j) ==
  LET starts == {j} \cup (IF j + 1 <= Len(s) /\ IsIdentifier(s[j]) /\ s[j + 1] = ","
                            THEN {j + 2} ELSE {})
      ends == UNION { ClauseEnds(s, a) : a \in starts }
  IN { k \in ends : k + 2 <= Len(s) /\ s[k + 1] = "from" /\ s[k + 2] \in StringTokens }

\* moduleRegex matched at token i: << last token of the match, match[1] >>,
\* or << >> when it does not match there
MatchAt(s, i) ==
  IF s[i] \notin {"import", "export"} THEN << >>
  ELSE LET ends == FromClauseEnds(s, i + 1) IN
    IF ends # {} THEN LET k == CHOOSE k \in ends : TRUE IN << k + 2, Unquote(s[k + 2]) >>
    ELSE IF i + 1 <= Len(s) /\ s[i + 1] \in StringTokens THEN << i + 1, Unquote(s[i + 1]) >>
    ELSE << >>

\* the exec loop: modules.add(match[1]) from lastIndex on
RECURSIVE ScanFrom(_, _, _)
ScanFrom(s, i, found) ==
  IF i > Len(s) THEN found
  ELSE LET m == MatchAt(s, i) IN
    IF m = << >> THEN ScanFrom(s, i + 1, found)
    ELSE ScanFrom(s, m[1] + 1,
                  IF \E n \in 1 .. Len(found) : found[n] = m[2] THEN found
                  ELSE Append(found, m[2]))

parseModuleDeps(s) == ScanFrom(s, 1, << >>)

\* the statements sources are made of: shape and specifier
WellFormedShapes == {"default", "named", "namespace", "bare", "mixed",
                     "exportAll", "exportNamed", "exportLocal"}
MalformedShapes == {"openBrace", "noFrom"}
StatementTokens(shape, q) ==
  CASE shape = "default" -> <<"import", "a", "from", q>>
    [] shape = "named" -> <<"import", "{", "a", "}", "from", q>>
    [] shape = "namespace" -> <<"import", "*", "as", "a", "from", q>>
    [] shape = "bare" -> <<"import", q>>
    [] shape = "mixed" -> <<"import", "a", ",", "{", "a", "}", "from", q>>
    [] shape = "exportAll" -> <<"export", "*", "from", q>>
    [] shape = "exportNamed" -> <<"export", "{", "a", "}", "from", q>>
    [] shape = "exportLocal" -> <<"export", "default", "a">>
    [] shape = "openBrace" -> <<"import", "{", "a", "from", q>>
    [] shape = "noFrom" -> <<"import", "a", q>>

Statements == (WellFormedShapes \cup MalformedShapes) \X StringTokens
SourceTexts == UNION { [1 .. n -> Statements] : n \in 0 .. MaxStatements }

RECURSIVE SourceTokens(_)
SourceTokens(stmts) ==
  IF stmts = << >> THEN << >>
  ELSE StatementTokens(stmts[1][1], stmts[1][2]) \o SourceTokens(Tail(stmts))
\* the caller scans a source for its dependencies
ParseModuleDeps ==
  /\ modules = None
  /\ modules' = Some(parseModuleDeps(SourceTokens(scanCode)))
  /\ UNCHANGED << executorType, hasDocument, pc, callVars, isInitialized, quickjsVars,
                  browserVars, expectReady, prevFailed, resolverVars, scanCode,
                  storageVars, overlapVars >>

\* one source of the bounded set
ScanInit ==
  /\ EngineInit /\ executorType = "quickjs"
  /\ ResolverAtRest /\ StorageAtRest /\ NoOverlap
  /\ scanCode \in SourceTexts
  /\ modules = None

ScanSpec == ScanInit /\ [][ParseModuleDeps]_vars
(***************************************************************************)
(* The code cache: the calls of its functions, and the clock.              *)
(***************************************************************************)
\* the package names and codes the cache functions are called with
CachePackages == {0, 1, MAX_ITEMS} \cup (MAX_ITEMS + 1 .. MAX_ITEMS + MaxNewPackages)
CodeTexts == {"", "v1", "v2"}

SaveCodeToStorage(packageName, text) ==
  /\ storageCalls < MaxStorageCalls
  /\ storageCalls' = storageCalls + 1
  /\ LET s == saveCodeToStorage(codeItems, metadata, packageName, text, now)
         returnsEarly == packageName = 0 \/ text = ""
     IN /\ codeItems' = s.items
        /\ metadata' = s.metadata
        /\ savedInOrder' =
             IF returnsEarly THEN savedInOrder
             ELSE IF /\ savedInOrder # None
                     /\ \A n \in 1 .. Len(savedInOrder[1]) : savedInOrder[1][n] # packageName
               THEN Some(Append(savedInOrder[1], packageName))
             ELSE None
        /\ lastSaved' =
             IF returnsEarly THEN lastSaved
             ELSE LET evicted == Packages(metadata) \
                                   Packages(enforceStorageLimit(codeItems, metadata).metadata)
                  IN MapSet([x \in DOMAIN lastSaved \ evicted |-> lastSaved[x]], packageName, text)
  /\ lastRead' = 0
  /\ UNCHANGED << executorType, hasDocument, pc, callVars, isInitialized, quickjsVars,
                  browserVars, expectReady, prevFailed, resolverVars, scannerVars, overlapVars,
                  now, loadedCode, callers, completed >>

LoadCodeFromStorage(packageName) ==
  /\ storageCalls < MaxStorageCalls
  /\ storageCalls' = storageCalls + 1
  /\ LET found == loadCodeFromStorage(codeItems, packageName) IN
       /\ loadedCode' = found
       /\ metadata' = IF found # None THEN SetTimestamp(metadata, packageName, now)
                      ELSE metadata
       /\ savedInOrder' = IF found # None THEN None ELSE savedInOrder
       /\ lastRead' = IF found # None THEN packageName ELSE 0
  /\ UNCHANGED << executorType, hasDocument, pc, callVars, isInitialized, quickjsVars,
                  browserVars, expectReady, prevFailed, resolverVars, scannerVars, overlapVars,
                  codeItems, now, lastSaved, callers, completed >>

ClearAllStorage ==
  /\ storageCalls < MaxStorageCalls
  /\ storageCalls' = storageCalls + 1
  /\ codeItems' = clearAllStorage(codeItems, metadata)
  /\ metadata' = << >>
  /\ savedInOrder' = Some(<< >>)
  /\ lastRead' = 0
  /\ lastSaved' = EmptyMap
  /\ UNCHANGED << executorType, hasDocument, pc, callVars, isInitialized, quickjsVars,
                  browserVars, expectReady, prevFailed, resolverVars, scannerVars, overlapVars,
                  now, loadedCode, callers, completed >>

\* a millisecond passes
Tick ==
  /\ now < MAX_ITEMS + MaxTicks
  /\ now' = now + 1
  /\ UNCHANGED << executorType, hasDocument, pc, callVars, isInitialized, quickjsVars,
                  browserVars, expectReady, prevFailed, resolverVars, scannerVars, overlapVars,
                  codeItems, metadata, loadedCode, storageCalls, savedInOrder, lastRead,
                  lastSaved, callers, completed >>

\* the storage sizes earlier sessions left: empty, one below the limit, at it
PersistedCounts == {0, MAX_ITEMS - 1, MAX_ITEMS}

PersistedStorage ==
  /\ EngineInit /\ executorType = "quickjs"
  /\ ResolverAtRest /\ ScannerAtRest /\ NoOverlap
  /\ \E n \in PersistedCounts, sameMs \in BOOLEAN :
       LET s == SavedBefore(n, sameMs) IN
         /\ codeItems = s.items
         /\ metadata = s.metadata
         /\ savedInOrder = Some([i \in 1 .. n |-> i])
         /\ lastSaved = s.items
  /\ now = MAX_ITEMS
  /\ loadedCode = None
  /\ storageCalls = 0
  /\ lastRead = 0
  /\ CallersAtRest

StorageInit == PersistedStorage /\ completed = {}

StorageNext ==
  \/ \E packageName \in CachePackages, text \in CodeTexts : SaveCodeToStorage(packageName, text)
  \/ \E packageName \in CachePackages : LoadCodeFromStorage(packageName)
  \/ ClearAllStorage
  \/ Tick

StorageSpec == StorageInit /\ [][StorageNext]_vars

(***************************************************************************)
(* The code cache shared by two callers: every localStorage read and write *)
(* of saveCodeToStorage / loadCodeFromStorage is a step of its own, and    *)
(* the steps of the two callers interleave.                                *)
(***************************************************************************)
\* what no step of a shared cache call changes
outsideSharedStore ==
  << executorType, hasDocument, pc, callVars, isInitialized, quickjsVars, browserVars,
     expectReady, prevFailed, resolverVars, scannerVars, overlapVars, now, savedInOrder,
     lastRead, lastSaved >>

At(c, label) == callers[c].pc = label
Goto(c, label) == [callers EXCEPT ![c].pc = label]

\* saveCodeToStorage(packageName, text) is called: the guard of its first line
CallSave(c, packageName, text) ==
  /\ At(c, "idle")
  /\ storageCalls < MaxStorageCalls
  /\ storageCalls' = storageCalls + 1
  /\ callers' = IF packageName = 0 \/ text = "" THEN callers
                ELSE [callers EXCEPT ![c] = [pc |-> "enforce", packageName |-> packageName,
                                             text |-> text, metadata |-> << >>]]
  /\ UNCHANGED << outsideSharedStore, codeItems, metadata, loadedCode, completed >>

\* enforceStorageLimit: getMetadata() and the test of the limit
EnforceGetMetadata(c) ==
  /\ At(c, "enforce")
  /\ callers' = [callers EXCEPT ![c].metadata = metadata,
                                ![c].pc = IF AtLimit(metadata) THEN "removeOldest"
                                          ELSE "getMetadata"]
  /\ UNCHANGED << outsideSharedStore, codeItems, metadata, loadedCode, storageCalls, completed >>

\* enforceStorageLimit: localStorage.removeItem(getStorageKey(oldestPackage))
EnforceRemoveItem(c) ==
  /\ At(c, "removeOldest")
  /\ codeItems' = Without(codeItems, OldestPackage(callers[c].metadata))
  /\ completed' = completed \ {OldestPackage(callers[c].metadata)}
  /\ callers' = Goto(c, "saveEvicted")
  /\ UNCHANGED << outsideSharedStore, metadata, loadedCode, storageCalls >>

\* enforceStorageLimit: delete metadata[oldestPackage]; saveMetadata(metadata)
EnforceSaveMetadata(c) ==
  /\ At(c, "saveEvicted")
  /\ metadata' = SelectSeq(callers[c].metadata,
                           LAMBDA e : e.pkg # OldestPackage(callers[c].metadata))
  /\ callers' = Goto(c, "getMetadata")
  /\ UNCHANGED << outsideSharedStore, codeItems, loadedCode, storageCalls, completed >>

\* saveCodeToStorage: const metadata = getMetadata()
SaveGetMetadata(c) ==
  /\ At(c, "getMetadata")
  /\ callers' = [callers EXCEPT ![c].metadata = metadata, ![c].pc = "setItem"]
  /\ UNCHANGED << outsideSharedStore, codeItems, metadata, loadedCode, storageCalls, completed >>

\* saveCodeToStorage: localStorage.setItem(key, code)
SaveSetItem(c) ==
  /\ At(c, "setItem")
  /\ codeItems' = MapSet(codeItems, callers[c].packageName, callers[c].text)
  /\ callers' = Goto(c, "saveMetadata")
  /\ UNCHANGED << outsideSharedStore, metadata, loadedCode, storageCalls, completed >>

\* saveCodeToStorage: metadata[packageName] = Date.now(); saveMetadata(metadata); return
SaveSaveMetadata(c) ==
  /\ At(c, "saveMetadata")
  /\ metadata' = SetTimestamp(callers[c].metadata, callers[c].packageName, now)
  /\ completed' = completed \cup {callers[c].packageName}
  /\ callers' = [callers EXCEPT ![c] = IdleCaller]
  /\ UNCHANGED << outsideSharedStore, codeItems, loadedCode, storageCalls >>

\* loadCodeFromStorage(packageName) is called: its guard and localStorage.getItem(key);
\* a miss returns
CallLoad(c, packageName) ==
  /\ At(c, "idle")
  /\ storageCalls < MaxStorageCalls
  /\ storageCalls' = storageCalls + 1
  /\ LET found == loadCodeFromStorage(codeItems, packageName) IN
       /\ loadedCode' = found
       /\ callers' = IF found = None THEN callers
                     ELSE [callers EXCEPT ![c] = [pc |-> "touch", packageName |-> packageName,
                                                  text |-> found[1], metadata |-> << >>]]
  /\ UNCHANGED << outsideSharedStore, codeItems, metadata, completed >>

\* loadCodeFromStorage: const metadata = getMetadata()
LoadGetMetadata(c) ==
  /\ At(c, "touch")
  /\ callers' = [callers EXCEPT ![c].metadata = metadata, ![c].pc = "saveTouched"]
  /\ UNCHANGED << outsideSharedStore, codeItems, metadata, loadedCode, storageCalls, completed >>

\* loadCodeFromStorage: metadata[packageName] = Date.now(); saveMetadata(metadata); return
LoadSaveMetadata(c) ==
  /\ At(c, "saveTouched")
  /\ metadata' = SetTimestamp(callers[c].metadata, callers[c].packageName, now)
  /\ callers' = [callers EXCEPT ![c] = IdleCaller]
  /\ UNCHANGED << outsideSharedStore, codeItems, loadedCode, storageCalls, completed >>

\* the store an earlier session left, every package of it saved, and two
\* callers about to use it
SharedStorageInit ==
  /\ PersistedStorage
  /\ completed = Packages(metadata)

\* the package names the two callers use: the empty one, a stored one, new ones
SharedPackages == {0, 1} \cup (MAX_ITEMS + 1 .. MAX_ITEMS + MaxNewPackages)

SharedStorageNext ==
  \E c \in Callers :
    \/ \E packageName \in SharedPackages : CallSave(c, packageName, "v2")
    \/ EnforceGetMetadata(c)
    \/ EnforceRemoveItem(c)
    \/ EnforceSaveMetadata(c)
    \/ SaveGetMetadata(c)
    \/ SaveSetItem(c)
    \/ SaveSaveMetadata(c)
    \/ \E packageName \in SharedPackages : CallLoad(c, packageName)
    \/ LoadGetMetadata(c)
    \/ LoadSaveMetadata(c)

SharedStorageSpec == SharedStorageInit /\ [][SharedStorageNext]_vars

(***************************************************************************)
(* The realm engine with runs of window.executeCode that take time: the    *)
(* listener of the iframe takes a request in one step and posts the result *)
(* in a later one, so the 30 s timer of execute() may fire in between.     *)
(***************************************************************************)
\* the message listener of the iframe takes a request and starts executeCode
RealmBegin(i, p) ==
  /\ << i, p >> \in toRealm
  /\ realm[i].loaded /\ ~realm[i].hung /\ realm[i].running = 0
  /\ toRealm' = toRealm \ {<< i, p >>}
  /\ realm' = [realm EXCEPT ![i].running = p]
  /\ UNCHANGED << executorType, hasDocument, utilVars, pc, callVars, isInitialized, quickjsVars,
                  iframe, iframesCreated, attached, packageImportMap, expectReady, prevFailed >>

\* executeCode returns and the listener posts the result to the parent, where
\* the listener of a waiting execute(), if there is one, resolves with it
RealmEnd(i) ==
  /\ realm[i].running # 0
  /\ LET p == realm[i].running
         w == RealmWindow(realm[i].global, Programs[p])
     IN /\ realm' = [realm EXCEPT ![i].global = w.global,
                                  ![i].hung = RealmHangs(Programs[p].end),
                                  ![i].running = 0]
        /\ IF RealmHangs(Programs[p].end) THEN UNCHANGED << result, settled, pc >>
           ELSE LET imported == RealmImportResult(Programs[p].end, w.global) IN
             IF pc = "b_wait" /\ ~RealmCatchThrows(imported)
               THEN /\ result' = BHandleMessage(RealmResult(w, imported))
                    /\ settled' = "resolved"
                    /\ pc' = "idle"
             ELSE UNCHANGED << result, settled, pc >>
  /\ UNCHANGED << executorType, hasDocument, utilVars, op, thrown, code, isInitialized, quickjsVars,
                  iframe, iframesCreated, attached, packageImportMap, toRealm, expectReady,
                  prevFailed >>

\* the caller issues its calls one after another
SerialNext ==
  \/ BInitialize
  \/ BInitializeReady
  \/ BDispose
  \/ \E p \in BProgramIds : BExecute(p)
  \/ BReinitReady
  \/ BExecuteTimeout
  \/ \E i \in DOMAIN realm : RealmLoad(i)
  \/ \E m \in toRealm : RealmMiss(m[1], m[2])
  \/ \E m \in toRealm : RealmBegin(m[1], m[2])
  \/ \E i \in DOMAIN realm : RealmEnd(i)

SerialSpec == BInit /\ [][SerialNext]_vars

(***************************************************************************)
(* Overlapping lifecycle calls: initialize() and dispose() called while an *)
(* earlier initialize() still waits at its await, as the effect of the App *)
(* does when it is cleaned up and run again.  The synchronous part of a    *)
(* call is one step, the continuation after the await another.             *)
(***************************************************************************)
\* what no lifecycle call changes
outsideLifecycle ==
  << executorType, hasDocument, pc, callVars, interruptCycles, logs, vmGlobal, ip,
     liveHandles, packageImportMap, realm, toRealm, expectReady, prevFailed,
     resolverVars, scannerVars, storageVars >>

PendingCall(n, i) == [call |-> n, iframe |-> i, disposed |-> FALSE]

\* JSExecutorEngine.initialize() up to its await
QCallInitialize ==
  /\ executorType = "quickjs"
  /\ initCalls < MaxInitCalls
  /\ initCalls' = initCalls + 1
  /\ afterDispose' = "none"
  /\ IF AlreadyInitialized
       THEN UNCHANGED pendingInit
       ELSE /\ modulesCreated + Cardinality(pendingInit) < MaxModules
            /\ pendingInit' = pendingInit \cup {PendingCall(initCalls + 1, 0)}
  /\ UNCHANGED << outsideLifecycle, isInitialized, quickJSModule, modulesCreated, iframe,
                  iframesCreated, attached >>

\* newQuickJSAsyncWASMModule() resolved for the call c: the two assignments
QSettleInitialize(c) ==
  /\ executorType = "quickjs"
  /\ c \in pendingInit
  /\ pendingInit' = pendingInit \ {c}
  /\ quickJSModule' = modulesCreated + 1
  /\ modulesCreated' = modulesCreated + 1
  /\ isInitialized' = TRUE
  /\ afterDispose' = IF afterDispose = "dispose" THEN "settled" ELSE afterDispose
  /\ UNCHANGED << outsideLifecycle, initCalls, iframe, iframesCreated, attached >>

\* newQuickJSAsyncWASMModule() rejected for the call c: the catch rethrows
QFailInitialize(c) ==
  /\ executorType = "quickjs"
  /\ c \in pendingInit
  /\ pendingInit' = pendingInit \ {c}
  /\ afterDispose' = IF afterDispose = "dispose" THEN "settled" ELSE afterDispose
  /\ UNCHANGED << outsideLifecycle, initCalls, isInitialized, quickJSModule, modulesCreated,
                  iframe, iframesCreated, attached >>

\* JSExecutorEngine.dispose()
QCallDispose ==
  /\ executorType = "quickjs"
  /\ quickJSModule' = 0
  /\ isInitialized' = FALSE
  /\ pendingInit' = { [c EXCEPT !.disposed = TRUE] : c \in pendingInit }
  /\ afterDispose' = "dispose"
  /\ UNCHANGED << outsideLifecycle, initCalls, modulesCreated, iframe, iframesCreated,
                  attached >>

\* BrowserExecutorEngine.initialize() up to its await: the early return, the
\* throw where there is no document, or the iframe created and appended
BCallInitialize ==
  /\ executorType = "browser"
  /\ initCalls < MaxInitCalls
  /\ initCalls' = initCalls + 1
  /\ afterDispose' = "none"
  /\ IF AlreadyInitialized \/ ~hasDocument
       THEN UNCHANGED << pendingInit, iframe, iframesCreated, attached >>
       ELSE /\ iframesCreated < MaxIframes
            /\ iframe' = iframesCreated + 1
            /\ iframesCreated' = iframesCreated + 1
            /\ attached' = attached \cup {iframesCreated + 1}
            /\ pendingInit' = pendingInit \cup {PendingCall(initCalls + 1, iframesCreated + 1)}
  /\ UNCHANGED << outsideLifecycle, isInitialized, quickJSModule, modulesCreated >>

\* an iframe-ready message or the 3 s timer ends the wait of the call c
BSettleInitialize(c) ==
  /\ executorType = "browser"
  /\ c \in pendingInit
  /\ pendingInit' = pendingInit \ {c}
  /\ isInitialized' = TRUE
  /\ afterDispose' = IF afterDispose = "dispose" THEN "settled" ELSE afterDispose
  /\ UNCHANGED << outsideLifecycle, initCalls, quickJSModule, modulesCreated, iframe,
                  iframesCreated, attached >>

\* BrowserExecutorEngine.dispose()
BCallDispose ==
  /\ executorType = "browser"
  /\ attached' = DetachedSet
  /\ iframe' = 0
  /\ isInitialized' = FALSE
  /\ pendingInit' = { [c EXCEPT !.disposed = TRUE] : c \in pendingInit }
  /\ afterDispose' = "dispose"
  /\ UNCHANGED << outsideLifecycle, initCalls, quickJSModule, modulesCreated, iframesCreated >>

LifecycleNext ==
  \/ QCallInitialize
  \/ \E c \in pendingInit : QSettleInitialize(c)
  \/ \E c \in pendingInit : QFailInitialize(c)
  \/ QCallDispose
  \/ BCallInitialize
  \/ \E c \in pendingInit : BSettleInitialize(c)
  \/ BCallDispose

LifecycleSpec == Init /\ [][LifecycleNext]_vars
(***************************************************************************)
(* Properties.                                                             *)
(***************************************************************************)
IsReady == IF executorType = "quickjs" THEN QIsReady ELSE BIsReady
ExecuteResolved == op = "execute" /\ settled = "resolved"

\* C1: on the interpreter engine execute() rejects with 'Execution engine is
\* not initialized yet' exactly when no initialize() has resolved since
\* construction or since the last dispose(); it rejects with nothing else,
\* and once initialize() resolves again execute() is accepted again.
C1_ExecuteRejectsIffNotReady ==
  (executorType = "quickjs" /\ op = "execute") =>
    /\ (settled = "rejected") <=> ~expectReady
    /\ (settled = "rejected") => thrown = NotInitializedMessage

\* an execute() resolved on the second module, after one was rejected
C1_Witness ==
  /\ executorType = "quickjs" /\ ExecuteResolved
  /\ quickJSModule = 2
  /\ thrown = NotInitializedMessage
  /\ result.error = None

\* C2: for both engines, between calls isReady() is true iff an initialize()
\* of the caller has resolved and dispose() was not called since; execute()
\* does not change it.
C2_IsReadyIffInitializedNotDisposed ==
  pc = "idle" => (IsReady <=> expectReady)

\* C3: a pending execute() of the interpreter engine only ever resolves,
\* with error present when the guest failed, and leaves the engine ready;
\* valid code then completes with its value and no error.
C3_GuestFailureNeverRejects ==
  /\ [][(pc = "q_eval" /\ pc' = "idle") =>
          /\ settled' = "resolved"
          /\ QIsReady'
          /\ (Programs[code].end.kind \in GuestFailureKinds => result'.error # None)]_vars
  /\ []((executorType = "quickjs" /\ ExecuteResolved /\ Programs[code].end.kind = "value") =>
          /\ result.error = None
          /\ (code = 3 => result.returnValue = Some("42")))

\* valid code returned its value right after an execution that failed
C3_Witness ==
  /\ executorType = "quickjs" /\ ExecuteResolved
  /\ prevFailed
  /\ code = 3
  /\ result.returnValue = Some("42")
  /\ result.error = None

\* C4: no ExecutionResult of either engine has both returnValue and error.
C4_ReturnValueErrorExclusive ==
  ExecuteResolved => ~(result.returnValue # None /\ result.error # None)

\* C5: a source whose evaluation throws yields a result with a non-empty
\* error and no returnValue.
C5_ThrowGivesNonEmptyError ==
  (ExecuteResolved /\ Throws(code)) =>
    /\ result.error # None
    /\ result.error # Some("")
    /\ result.returnValue = None

\* the console calls a program makes before it ends
RECURSIVE ConsoleCalls(_)
ConsoleCalls(body) ==
  IF body = << >> THEN << >>
  ELSE IF Head(body).op = "console"
    THEN << [type |-> Head(body).type,
             content |-> Join([i \in 1 .. Len(Head(body).args) |-> FormatArg(Head(body).args[i])], " ")] >>
         \o ConsoleCalls(Tail(body))
  ELSE ConsoleCalls(Tail(body))

\* C6: the logs of a result of the interpreter engine are the console calls
\* of that execution, one entry per call in call order, also when the
\* execution ended with an error.
C6_LogsAreConsoleCalls ==
  (executorType = "quickjs" /\ ExecuteResolved) =>
    result.logs = IF Programs[code].end.kind = "syntax" THEN << >>
                  ELSE ConsoleCalls(Programs[code].body)

\* C7: the interrupt handler is polled at most InterruptBudget + 1 times in
\* one execution, and a guest that spins leads execute() to resolve with
\* error present.
C7_LoopIsInterrupted ==
  /\ [](interruptCycles <= InterruptBudget + 1)
  /\ ((pc = "q_eval" /\ Programs[code].end.kind = "loop")
        ~> (pc = "idle" /\ ExecuteResolved /\ result.error # None))

\* a spinning guest was interrupted on the poll after the budget
C7_Witness ==
  /\ executorType = "quickjs" /\ ExecuteResolved
  /\ Programs[code].end.kind = "loop"
  /\ interruptCycles = InterruptBudget + 1
  /\ result.error = Some("InternalError: interrupted")

\* C8: an execution that reads the global another execution wrote never
\* sees the written value.
C8_GlobalsNotVisibleAcrossRuns ==
  (ExecuteResolved /\ Programs[code].end.kind = "global") =>
    result.returnValue # Some("dirty")

\* the outcome of a realm-engine execute() that failed as not ready
BNotReadyFailure ==
  \/ settled = "rejected"
  \/ /\ settled = "resolved"
     /\ result.error = Some("Browser execution error: Browser executor is not initialized yet")

\* C9: on the realm engine an execute() called right after dispose() fails
\* as not ready at once, and creates no iframe.
C9_ExecuteAfterDisposeFails ==
  [][(op = "dispose" /\ \E p \in BProgramIds : BExecute(p)) =>
       /\ pc' = "idle"
       /\ BNotReadyFailure'
       /\ iframesCreated' = iframesCreated
       /\ attached' = attached]_vars

\* C10: initialize() on an initialized engine resolves at once, creates no
\* module and no iframe, and leaves the engine as it was, ready.
C10_InitializeIdempotent ==
  [][(isInitialized /\ (QInitialize \/ BInitialize)) =>
       /\ pc' = "idle" /\ settled' = "resolved"
       /\ UNCHANGED << isInitialized, quickJSModule, modulesCreated, iframe,
                       iframesCreated, attached, realm, packageImportMap, toRealm >>
       /\ IsReady']_vars

\* initialize() resolved on a realm engine that had executed on its first
\* iframe and still holds it
C10_Witness ==
  /\ executorType = "browser"
  /\ op = "initialize" /\ settled = "resolved"
  /\ code # 0 /\ thrown = ""
  /\ iframesCreated = 1 /\ iframe = 1 /\ isInitialized

\* C11: on the interpreter engine a completion value of undefined (the empty,
\* whitespace-only or comment-only script completes with it) gives a result
\* without returnValue, the guest string 'undefined' gives the returnValue
\* "undefined", and the two results differ.
C11_UndefinedCompletionHasNoReturnValue ==
  (executorType = "quickjs" /\ ExecuteResolved /\ Programs[code].end.kind = "value") =>
    /\ (Programs[code].end.v = Undefined) <=> (result.returnValue = None)
    /\ (Programs[code].end.v = Str("undefined")) => (result.returnValue = Some("undefined"))
    /\ ValueBranch(logs, Undefined) # ValueBranch(logs, Str("undefined"))

\* the no-op script completed without a returnValue, and without an error
C11_Witness ==
  /\ executorType = "quickjs" /\ ExecuteResolved
  /\ code = 1
  /\ result.returnValue = None /\ result.error = None

\* an npm package or scope name between positions i and j of a specifier:
\* word characters and dots, starting with a word character
IsPackageName(s, i, j) ==
  /\ i <= j /\ IsWord(s[i]) /\ IsWord(s[j])
  /\ \A k \in i .. j : IsWord(s[k]) \/ s[k] = "."

\* the reference: '/' followed by a package name, or by '@scope/name'
ReferenceRewritesPath(s) ==
  /\ Len(s) >= 2 /\ s[1] = "/"
  /\ \/ IsWord(s[2])
     \/ /\ s[2] = "@"
        /\ \E j \in 3 .. Len(s) - 2 :
             IsPackageName(s, 3, j) /\ s[j + 1] = "/" /\ IsWord(s[j + 2])

ReferenceUrl(s) ==
  IF StartsWith(s, <<"http", ":", "/", "/">>) \/ StartsWith(s, <<"https", ":", "/", "/">>)
    THEN Join(s, "")
  ELSE IF ReferenceRewritesPath(s) THEN "https://esm.sh" \o Join(s, "")
  ELSE "https://esm.sh/" \o Join(s, "")

\* C12: resolveModuleUrl agrees with the reference on every specifier: an
\* http:// or https:// URL is returned unchanged, '/' followed by a package
\* name or '@scope/name' gives 'https://esm.sh' and the specifier, everything
\* else, the empty string included, 'https://esm.sh/' and the specifier.
C12_ResolverAgreesWithReference ==
  moduleUrl # None => moduleUrl = Some(ReferenceUrl(moduleName))

\* the specifiers of the well-formed import and export-from statements of a
\* source, each once, in order of first occurrence
RECURSIVE ExpectedDeps(_, _)
ExpectedDeps(stmts, found) ==
  IF stmts = << >> THEN found
  ELSE LET q == Unquote(stmts[1][2])
           counts == /\ stmts[1][1] \in WellFormedShapes \ {"exportLocal"}
                     /\ \A n \in 1 .. Len(found) : found[n] # q
       IN ExpectedDeps(Tail(stmts), IF counts THEN Append(found, q) ELSE found)

\* C13: parseModuleDeps returns each recognised import / export-from
\* specifier exactly once, in order of first occurrence; a statement with an
\* unterminated brace or a missing `from` contributes none, and the
\* well-formed statements around it are still found.
C13_ScannerFindsWellFormedStatements ==
  modules # None => modules = Some(ExpectedDeps(scanCode, << >>))

\* C14: across execute(), addPackage() and setPackagesFromUrl() the set of
\* specifiers in the import map of the realm engine only grows, also when a
\* later snippet no longer imports them; only clearPackages() shrinks it,
\* and it empties it.
C14_ImportMapOnlyGrows ==
  [][\/ DOMAIN packageImportMap \subseteq DOMAIN packageImportMap'
     \/ (BClearPackages /\ DOMAIN packageImportMap' = {})]_vars

\* a snippet without imports was executed while the map still holds the
\* sub-path specifier an earlier snippet imported, and a package of the URL
C14_Witness ==
  /\ executorType = "browser" /\ ExecuteResolved
  /\ Programs[code].imports = << >>
  /\ {"lodash/debounce", "@babel/core"} \subseteq DOMAIN packageImportMap

\* C15: after execute() of the realm engine has scanned a source, every
\* specifier imported in it that is neither a relative path nor an absolute
\* URL is a key of the import map, together with its base package (name, or
\* @scope/name) and the trailing-slash entry of that package; relative paths
\* and absolute URLs are not added.
C15_ScannedSpecifiersAreMapped ==
  [][\A p \in BProgramIds : BExecute(p) =>
       \A n \in 1 .. Len(Programs[p].imports) :
         LET segments == Programs[p].imports[n]
             base == SpecifierText(basePackage(segments))
         IN IF segments[1] \in {".", "..", "http:", "https:"}
              THEN SpecifierText(segments) \in DOMAIN packageImportMap' =>
                     SpecifierText(segments) \in DOMAIN packageImportMap
            ELSE {SpecifierText(segments), base, base \o "/"}
                   \subseteq DOMAIN packageImportMap']_vars

\* C16: whenever execute() adds a specifier to the import map, the realm is
\* torn down and a new one is built, declaring the grown map, before the
\* code is sent; and whenever an execute request is posted, the live realm
\* declares every specifier that is in the import map at that moment.
C16_RealmDeclaresImportMap ==
  [][/\ \A p \in BProgramIds :
          (BExecute(p) /\ DOMAIN packageImportMap' # DOMAIN packageImportMap) =>
            /\ toRealm' \subseteq toRealm
            /\ iframe \notin attached'
            /\ iframe' # 0 => /\ iframe' \notin DOMAIN realm
                              /\ realm'[iframe'].imports = DOMAIN packageImportMap'
                              /\ pc' = "b_reinit"
     /\ \A m \in toRealm' \ toRealm :
          /\ m[1] = iframe' /\ m[1] \in attached'
          /\ DOMAIN packageImportMap' \subseteq realm'[m[1]].imports]_vars

\* the request of a snippet with imports is posted to a rebuilt realm that
\* declares them, on an engine that had been initialized before
C16_Witness ==
  /\ pc = "b_wait" /\ code = 17
  /\ expectReady /\ iframe >= 2
  /\ << iframe, 17 >> \in toRealm
  /\ {"react", "lodash/debounce", "lodash/"} \subseteq realm[iframe].imports

\* C17: when the realm sends no execution-result message, the pending
\* execute() of the realm engine is rejected with the timeout error: it does
\* not wait forever, and it does not resolve with a result whose error field
\* carries the timeout.
C17_NoResponseRejectsWithTimeout ==
  /\ [][(pc = "b_wait" /\ pc' # "b_wait" /\ toRealm' = toRealm) =>
          /\ settled' = "rejected" /\ thrown' = "Execution timeout"
          /\ result' = result]_vars
  /\ (pc = "b_wait" /\ toRealm = {}) ~> (settled = "rejected" /\ thrown = "Execution timeout")

\* an execute() was rejected with the timeout after its request had reached
\* a realm that never answers
C17_Witness ==
  /\ executorType = "browser" /\ op = "execute"
  /\ settled = "rejected" /\ thrown = "Execution timeout"
  /\ iframe # 0 /\ realm[iframe].hung /\ toRealm = {}

C19_ReadProtectsFromEviction ==
  [][\A packageName \in CachePackages \ Packages(metadata), text \in CodeTexts \ {""} :
       (/\ getStorageCount(metadata) = 100
        /\ lastRead \in Packages(metadata)
        /\ SaveCodeToStorage(packageName, text)) =>
         /\ lastRead \in Packages(metadata')
         /\ loadCodeFromStorage(codeItems', lastRead) # None]_vars

\* C20: saving a package that is already stored replaces its code and
\* refreshes its recency, leaves the count unchanged and evicts no other
\* package, also when the cache holds 100 packages.
C20_ResaveEvictsNothing ==
  [][\A packageName \in Packages(metadata), text \in CodeTexts \ {""} :
       SaveCodeToStorage(packageName, text) =>
         /\ getStorageCount(metadata') = getStorageCount(metadata)
         /\ Packages(metadata') = Packages(metadata)
         /\ DOMAIN codeItems' = DOMAIN codeItems
         /\ codeItems' = [codeItems EXCEPT ![packageName] = text]
         /\ \E i \in 1 .. Len(metadata') :
              metadata'[i] = [pkg |-> packageName, ts |-> now]]_vars

C25_SharedStoreCallsAreAtomic ==
  (\A c \in Callers : At(c, "idle")) =>
    /\ completed \subseteq Packages(metadata)
    /\ getStorageCount(metadata) <= 100

\* C23: the interrupt callback of an execution lets the guest continue on
\* each of its first 1024 invocations and requests an abort on the 1025th and
\* on every later one; its counter starts from zero for every execute()
\* call, so a run is not cut short by the interrupted run before it.
C23_InterruptBudgetPerExecution ==
  /\ \A c \in 0 .. 2 * InterruptBudget : InterruptAbort(c) <=> (c + 1 > 1024)
  /\ [][/\ QInterrupt => (pc' = "q_eval" <=> interruptCycles' <= 1024)
        /\ \A p \in ProgramIds : (QExecute(p) /\ settled' = "none") => interruptCycles' = 0
        /\ (pc = "q_eval" /\ pc' = "q_eval") =>
             interruptCycles' \in {interruptCycles, interruptCycles + 1}]_vars

\* the run before was interrupted, and this run was let through 1024 times
C23_Witness ==
  /\ pc = "q_eval"
  /\ Programs[code].end.kind = "loop"
  /\ interruptCycles = 1024
  /\ result.error = Some("InternalError: interrupted")

\* C22: on every exit path of the interpreter engine's execute() (completion,
\* guest throw, host-side exception) the context and every handle created
\* for that execution (the four console function handles, the console
\* object, the result value or error handle) are disposed before it returns.
C22_HandlesDisposedOnEveryExit ==
  (executorType = "quickjs" /\ pc = "idle") => liveHandles = {}

\* C24: both engines resolve a specifier to the same URL: for every key the
\* realm engine puts in its import map while scanning the code in execute()
\* (the specifier, its base package, the base package with a slash), the
\* mapped URL is what resolveModuleUrl returns for that key.
C24_EnginesResolveAlike ==
  [][\A p \in BProgramIds :
       BExecute(p) =>
         \A n \in 1 .. Len(Programs[p].imports) :
           LET segments == Programs[p].imports[n]
               base == basePackage(segments)
           IN \A s \in {segments, base, Append(base, "")} :
                LET key == SpecifierText(s) IN
                  (key \notin DOMAIN packageImportMap /\ key \in DOMAIN packageImportMap') =>
                    /\ Join(SpecifierTokens(s), "") = key
                    /\ packageImportMap'[key] = resolveModuleUrl(SpecifierTokens(s))]_vars

\* C26: a realm-engine instance has at most one iframe attached to the
\* document at any time, and an iframe it no longer references is never left
\* attached, also when initialize() is called again while an earlier
\* initialize() still waits for the readiness signal.
C26_AtMostOneIframeAttached ==
  executorType = "browser" =>
    /\ Cardinality(attached) <= 1
    /\ attached \subseteq {iframe}

\* C27: if dispose() is called on an engine while an initialize() call is
\* pending, then once that initialize() has settled isReady() is false, and
\* it stays false until initialize() is called again.
C27_DisposeWinsOverPendingInitialize ==
  afterDispose = "settled" => ~IsReady

\* C28: for both engines, whenever an initialize() call that was started
\* after the most recent dispose() resolves without error, isReady() is
\* true, also when that dispose() was called while an earlier initialize()
\* was pending.
C28_InitializeAfterDisposeMakesReady ==
  [][/\ \A c \in pendingInit :
          ((QSettleInitialize(c) \/ BSettleInitialize(c)) /\ ~c.disposed) => IsReady'
     /\ ((QCallInitialize \/ BCallInitialize) /\ AlreadyInitialized) => IsReady']_vars

\* C29: with calls issued one after another, the result a realm-engine
\* execute() resolves with is the realm's response to the code of that same
\* call: the result of an earlier call that timed out is never delivered as
\* the result of a later call.
C29_ResultBelongsToItsCall ==
  [][\A i \in DOMAIN realm :
       (RealmEnd(i) /\ pc = "b_wait" /\ settled' = "resolved") =>
         realm[i].running = code]_vars

====
